---- MODULE Spec2Model ----
(***************************************************************************)
(* The "Try Models" comparison flow of ui_comparison.py, a Streamlit       *)
(* script: every user interaction re-executes the script from the top.     *)
(* The model follows one script run line by line (pc), across a bounded    *)
(* number of reruns.                                                       *)
(*                                                                         *)
(* Strings are sequences of one-character strings.  time.time() readings   *)
(* and elapsed times are whole milliseconds; table scores are whole        *)
(* thousandths.                                                            *)
(***************************************************************************)
EXTENDS Integers, Sequences, FiniteSets, TLC

VARIABLES
    pc,               \* position of the script run
    runs,             \* script runs started so far
    env_ok,           \* AZURE_ENDPOINT / API_KEY / API_VERSION allow AzureOpenAI(...) to be built
    cache,            \* st.cache_resource holds the client of init_clients
    azure_client,     \* the module global azure_client of this run
    user_question,    \* value of the text area in this run
    clicked,          \* value of st.button("Submit Question") in this run
    prompt,           \* the local prompt of the submit handler
    start_time,       \* start_time of the adapter call in progress
    reply,            \* what the transport did with the last request
    response,         \* the handler's variable response
    time_taken,       \* the handler's variable time_taken
    gpt4_result,      \* what get_gpt4_response returned in this run
    tinyllama_result, \* what get_tinyllama_response returned in this run
    log,              \* calls made in this run, in order
    page,             \* elements rendered outside the two columns in this run
    dataframes,       \* tables rendered by create_metrics_table in this run
    col1,             \* markdown bodies rendered in column 1
    col2              \* markdown bodies rendered in column 2

vars == <<pc, runs, env_ok, cache, azure_client, user_question, clicked, prompt,
          start_time, reply, response, time_taken, gpt4_result, tinyllama_result,
          log, page, dataframes, col1, col2>>

(***************************************************************************)
(* Bounds.                                                                 *)
(***************************************************************************)
MaxRuns == 2
MaxClock == 6
MaxQLen == 1
MaxLen == 3

QuestionChars == {"2", "+", " "}

Strs(n) == UNION {[1..k -> QuestionChars] : k \in 0..n}

Questions == Strs(MaxQLen)

ClockReadings == 0..MaxClock

(***************************************************************************)
(* String literals of the source.                                          *)
(***************************************************************************)
TemplateHead ==
    <<"S", "o", "l", "v", "e", " ", "t", "h", "i", "s", " ", "m", "a", "t", "h", "e", "m",
      "a", "t", "i", "c", "s", " ", "q", "u", "e", "s", "t", "i", "o", "n", " ", "s", "t",
      "e", "p", " ", "b", "y", " ", "s", "t", "e", "p", ".", "\n", "\n", " ", " ", " ", " ",
      "Q", "U", "E", "S", "T", "I", "O", "N", ":", "\n", " ", " ", " ", " ">>

TemplateTail ==
    <<"\n", "\n", " ", " ", " ", " ", "R", "E", "Q", "U", "I", "R", "E", "M", "E", "N", "T",
      "S", ":", "\n", " ", " ", " ", " ", "1", ".", " ", "A", "n", "a", "l", "y", "z", "e",
      " ", "t", "h", "e", " ", "q", "u", "e", "s", "t", "i", "o", "n", " ", "c", "a", "r",
      "e", "f", "u", "l", "l", "y", "\n", " ", " ", " ", " ", "2", ".", " ", "S", "h", "o",
      "w", " ", "A", "L", "L", " ", "m", "a", "t", "h", "e", "m", "a", "t", "i", "c", "a",
      "l", " ", "s", "t", "e", "p", "s", " ", "c", "l", "e", "a", "r", "l", "y", "\n", " ",
      " ", " ", " ", "3", ".", " ", "C", "a", "l", "c", "u", "l", "a", "t", "e", " ", "v",
      "a", "l", "u", "e", "s", " ", "p", "r", "e", "c", "i", "s", "e", "l", "y", "\n", " ",
      " ", " ", " ", "4", ".", " ", "E", "v", "a", "l", "u", "a", "t", "e", " ", "e", "a",
      "c", "h", " ", "s", "t", "e", "p", " ", "s", "y", "s", "t", "e", "m", "a", "t", "i",
      "c", "a", "l", "l", "y", "\n", "\n", " ", " ", " ", " ", "Y", "o", "u", "r", " ", "c",
      "o", "m", "p", "l", "e", "t", "e", " ", "s", "o", "l", "u", "t", "i", "o", "n", ":">>

ErrorPrefix ==
    <<"E", "r", "r", "o", "r", ":", " ">>

IndexErrorText ==
    <<"l", "i", "s", "t", " ", "i", "n", "d", "e", "x", " ", "o", "u", "t", " ", "o", "f",
      " ", "r", "a", "n", "g", "e">>

KeyErrorText ==
    <<"'", "r", "e", "s", "p", "o", "n", "s", "e", "'">>

ConnectionErrorText ==
    <<"C", "o", "n", "n", "e", "c", "t", "i", "o", "n", " ", "e", "r", "r", "o", "r", ".">>

Gpt4Header ==
    <<"#", "#", "#", " ", "G", "P", "T", "-", "4", " ", "R", "e", "s", "p", "o", "n", "s",
      "e">>

TinyLlamaHeader ==
    <<"#", "#", "#", " ", "T", "i", "n", "y", "L", "l", "a", "m", "a", " ", "R", "e", "s",
      "p", "o", "n", "s", "e">>

TimeHead ==
    <<"*", "R", "e", "s", "p", "o", "n", "s", "e", " ", "t", "i", "m", "e", ":", " ">>

TimeTail ==
    <<" ", "s", "e", "c", "o", "n", "d", "s", "*">>

DigitChars == <<"0", "1", "2", "3", "4", "5", "6", "7", "8", "9">>

Digit(d) == DigitChars[d + 1]

RECURSIVE IntStr(_)
IntStr(n) == IF n < 10 THEN <<Digit(n)>> ELSE IntStr(n \div 10) \o <<Digit(n % 10)>>

Abs(n) == IF n < 0 THEN -n ELSE n

\* n / d rounded to the nearest integer, ties to even (n >= 0, d > 0)
RoundHalfEven(n, d) ==
    LET q == n \div d
        r == n % d
    IN  IF 2 * r > d \/ (2 * r = d /\ q % 2 = 1) THEN q + 1 ELSE q

\* f"{x:.2f}" for x seconds given in milliseconds
Format2f(ms) ==
    LET cs == RoundHalfEven(Abs(ms), 10)
    IN  (IF ms < 0 THEN <<"-">> ELSE <<>>)
        \o IntStr(cs \div 100) \o <<".", Digit((cs \div 10) % 10), Digit(cs % 10)>>

\* f"{x:.3f}" for a score given in thousandths
Format3f(th) ==
    LET a == Abs(th)
    IN  (IF th < 0 THEN <<"-">> ELSE <<>>)
        \o IntStr(a \div 1000)
        \o <<".", Digit((a \div 100) % 10), Digit((a \div 10) % 10), Digit(a % 10)>>

StartsWith(s, p) == Len(s) >= Len(p) /\ SubSeq(s, 1, Len(p)) = p

DigitVal(c) == CHOOSE d \in 0..9 : DigitChars[d + 1] = c

RECURSIVE DigitsValue(_)
DigitsValue(s) ==
    IF s = <<>> THEN 0
    ELSE LET c == s[Len(s)]
             rest == SubSeq(s, 1, Len(s) - 1)
         IN  IF c = "." THEN DigitsValue(rest) ELSE 10 * DigitsValue(rest) + DigitVal(c)

\* float(s) for a fixed-point numeral s, as a whole number of its last decimal place
ParseFixed(s) ==
    IF s # <<>> /\ s[1] = "-" THEN -DigitsValue(Tail(s)) ELSE DigitsValue(s)

(***************************************************************************)
(* Helper functions for model interaction.                                 *)
(***************************************************************************)
create_prompt_plain(question) ==
    TemplateHead \o <<"{", "q", "u", "e", "s", "t", "i", "o", "n", "}">> \o TemplateTail

create_prompt(question) == TemplateHead \o question \o TemplateTail

ModelTexts == {<<"4">>, <<>>}

ExcTexts == {ConnectionErrorText, <<>>}

\* what client.chat.completions.create can do: return a completion, raise, or
\* return a completion whose choices list is empty
CloudOutcomes ==
    {[kind |-> "ok", body |-> t] : t \in ModelTexts}
    \cup {[kind |-> "raise", body |-> m] : m \in ExcTexts}
    \cup {[kind |-> "no_choices", body |-> <<>>]}

\* what ollama.generate can do: return a response, raise, or return a mapping
\* without the 'response' field
LocalOutcomes ==
    {[kind |-> "ok", body |-> t] : t \in ModelTexts}
    \cup {[kind |-> "raise", body |-> m] : m \in ExcTexts}
    \cup {[kind |-> "no_response_field", body |-> <<>>]}

NoReply == [kind |-> "none", body |-> <<>>]

NoResult == [text |-> <<>>, time |-> 0, raised |-> FALSE]

\* str(e) of the exception raised inside the try block
StrExc(outcome) ==
    CASE outcome.kind = "raise" -> outcome.body
      [] outcome.kind = "no_choices" -> IndexErrorText
      [] outcome.kind = "no_response_field" -> KeyErrorText

get_gpt4_response_timed(start, outcome, now) ==
    IF outcome.kind = "ok"
    THEN [text |-> outcome.body, time |-> now - start, raised |-> FALSE]
    ELSE [text |-> ErrorPrefix \o StrExc(outcome), time |-> now - start, raised |-> FALSE]

\* the value returned for a request made at clock reading start, given the
\* transport's outcome and the clock reading now taken after the response
get_gpt4_response(start, outcome, now) ==
    IF outcome.kind = "ok"
    THEN [text |-> outcome.body, time |-> now - start, raised |-> FALSE]
    ELSE [text |-> ErrorPrefix \o StrExc(outcome), time |-> 0, raised |-> FALSE]

get_tinyllama_response(start, outcome, now) ==
    IF outcome.kind = "ok"
    THEN [text |-> outcome.body, time |-> now - start, raised |-> FALSE]
    ELSE [text |-> ErrorPrefix \o StrExc(outcome), time |-> 0, raised |-> FALSE]

(***************************************************************************)
(* Data for each section, in thousandths.                                  *)
(***************************************************************************)
Metrics ==
    <<"Correctness", "Mathematical Reasoning", "Solution Completeness",
      "Explanation Quality", "Coherence", "Time Efficiency", "Final Score">>

DataFrame(gpt4, tinyllama, difference) ==
    [i \in 1..Len(Metrics) |->
        [Metric |-> Metrics[i], GPT4 |-> gpt4[i], TinyLlama |-> tinyllama[i],
         Difference |-> difference[i]]]

abstract_algebra_data ==
    DataFrame(<<830, 400, 425, 650, 675, 900, 710>>,
              <<0, 100, 0, 100, 0, 300, 50>>,
              <<830, 300, 425, 550, 675, 600, 660>>)

college_math_data ==
    DataFrame(<<850, 700, 450, 500, 450, 850, 740>>,
              <<350, 50, 50, 100, 50, 700, 180>>,
              <<500, 650, 400, 400, 400, 150, 560>>)

elementary_math_data ==
    DataFrame(<<800, 550, 350, 400, 300, 900, 590>>,
              <<300, 50, 20, 50, 20, 650, 190>>,
              <<500, 500, 330, 350, 280, 250, 400>>)

high_school_math_data ==
    DataFrame(<<850, 750, 400, 450, 350, 850, 760>>,
              <<400, 100, 50, 80, 50, 650, 260>>,
              <<450, 650, 350, 370, 300, 200, 500>>)

overall_metrics ==
    DataFrame(<<833, 628, 388, 449, 363, 880, 684>>,
              <<317, 47, 29, 55, 32, 658, 183>>,
              <<517, 581, 360, 393, 331, 222, 501>>)

\* the dataframe create_metrics_table hands to st.dataframe
create_metrics_table(data, title) ==
    [title |-> title,
     data |-> data,
     formatted |->
        [i \in 1..Len(data) |->
            [Metric |-> data[i].Metric,
             GPT4 |-> Format3f(data[i].GPT4),
             TinyLlama |-> Format3f(data[i].TinyLlama),
             Difference |->
                LET x == Format3f(data[i].Difference)
                IN  IF ParseFixed(x) > 0 THEN <<"+">> \o x ELSE x]]]

\* f"*Response time: {time_taken:.2f} seconds*"
TimeLine(t) == TimeHead \o Format2f(t) \o TimeTail

Event(e, a) == [ev |-> e, arg |-> a]

Count(e) == Cardinality({i \in 1..Len(log) : log[i].ev = e})

(***************************************************************************)
(* The script.                                                             *)
(***************************************************************************)
Init ==
    /\ pc = "init"
    /\ runs = 1
    /\ env_ok \in BOOLEAN
    /\ cache = FALSE
    /\ azure_client = "unset"
    /\ user_question = <<>>
    /\ clicked = FALSE
    /\ prompt = <<>>
    /\ start_time = 0
    /\ reply = NoReply
    /\ response = <<>>
    /\ time_taken = 0
    /\ gpt4_result = NoResult
    /\ tinyllama_result = NoResult
    /\ log = <<>>
    /\ page = <<>>
    /\ dataframes = <<>>
    /\ col1 = <<>>
    /\ col2 = <<>>

\* azure_client = init_clients() returns (from the cache once it has succeeded)
InitClientsOk ==
    /\ pc = "init"
    /\ cache \/ env_ok
    /\ cache' = TRUE
    /\ azure_client' = "AzureOpenAI"
    /\ pc' = "title"
    /\ UNCHANGED <<runs, env_ok, user_question, clicked, prompt, start_time, reply,
                   response, time_taken, gpt4_result, tinyllama_result, log, page,
                   dataframes, col1, col2>>

InitClientsFail_NoStop ==
    /\ pc = "init"
    /\ ~cache /\ ~env_ok
    /\ page' = Append(page, "error")
    /\ pc' = "title"
    /\ UNCHANGED <<runs, env_ok, cache, azure_client, user_question, clicked, prompt,
                   start_time, reply, response, time_taken, gpt4_result,
                   tinyllama_result, log, dataframes, col1, col2>>

\* init_clients() raises: st.error, st.stop
InitClientsFail ==
    /\ pc = "init"
    /\ ~cache /\ ~env_ok
    /\ page' = Append(page, "error")
    /\ pc' = "stopped"
    /\ UNCHANGED <<runs, env_ok, cache, azure_client, user_question, clicked, prompt,
                   start_time, reply, response, time_taken, gpt4_result,
                   tinyllama_result, log, dataframes, col1, col2>>

\* st.title, st.tabs
Title ==
    /\ pc = "title"
    /\ page' = page \o <<"title", "tabs">>
    /\ pc' = "tab0"
    /\ UNCHANGED <<runs, env_ok, cache, azure_client, user_question, clicked, prompt,
                   start_time, reply, response, time_taken, gpt4_result,
                   tinyllama_result, log, dataframes, col1, col2>>

\* with tabs[0]
SubjectPerformance ==
    /\ pc = "tab0"
    /\ page' = page \o <<"subject_performance">>
    /\ dataframes' = Append(dataframes, create_metrics_table(overall_metrics, ""))
    /\ pc' = "tab1"
    /\ UNCHANGED <<runs, env_ok, cache, azure_client, user_question, clicked, prompt,
                   start_time, reply, response, time_taken, gpt4_result,
                   tinyllama_result, log, col1, col2>>

\* with tabs[1]
DetailedAnalysis ==
    /\ pc = "tab1"
    /\ page' = page \o <<"detailed_analysis">>
    /\ dataframes' = dataframes \o
          <<create_metrics_table(abstract_algebra_data, "Abstract Algebra Metrics"),
            create_metrics_table(college_math_data, "College Mathematics Metrics"),
            create_metrics_table(elementary_math_data, "Elementary Mathematics Metrics"),
            create_metrics_table(high_school_math_data, "High School Mathematics Metrics")>>
    /\ pc' = "tab2"
    /\ UNCHANGED <<runs, env_ok, cache, azure_client, user_question, clicked, prompt,
                   start_time, reply, response, time_taken, gpt4_result,
                   tinyllama_result, log, col1, col2>>

\* with tabs[2]: header, text area, button
TryModels ==
    /\ pc = "tab2"
    /\ page' = page \o <<"try_models">>
    /\ pc' = "button"
    /\ UNCHANGED <<runs, env_ok, cache, azure_client, user_question, clicked, prompt,
                   start_time, reply, response, time_taken, gpt4_result,
                   tinyllama_result, log, dataframes, col1, col2>>

\* if st.button(...) is False
NotClicked ==
    /\ pc = "button"
    /\ ~clicked
    /\ pc' = "footer"
    /\ UNCHANGED <<runs, env_ok, cache, azure_client, user_question, clicked, prompt,
                   start_time, reply, response, time_taken, gpt4_result,
                   tinyllama_result, log, page, dataframes, col1, col2>>

\* else: st.warning
WarnEmpty ==
    /\ pc = "button"
    /\ clicked
    /\ user_question = <<>>
    /\ page' = Append(page, "warning")
    /\ pc' = "footer"
    /\ UNCHANGED <<runs, env_ok, cache, azure_client, user_question, clicked, prompt,
                   start_time, reply, response, time_taken, gpt4_result,
                   tinyllama_result, log, dataframes, col1, col2>>

BuildPrompt_Unguarded ==
    /\ pc = "button"
    /\ clicked
    /\ prompt' = create_prompt(user_question)
    /\ log' = Append(log, Event("create_prompt", user_question))
    /\ page' = Append(page, "spinner")
    /\ pc' = "col1_header"
    /\ UNCHANGED <<runs, env_ok, cache, azure_client, user_question, clicked,
                   start_time, reply, response, time_taken, gpt4_result,
                   tinyllama_result, dataframes, col1, col2>>

\* if user_question: spinner, prompt = create_prompt(user_question)
BuildPrompt ==
    /\ pc = "button"
    /\ clicked
    /\ user_question # <<>>
    /\ prompt' = create_prompt(user_question)
    /\ log' = Append(log, Event("create_prompt", user_question))
    /\ page' = Append(page, "spinner")
    /\ pc' = "col1_header"
    /\ UNCHANGED <<runs, env_ok, cache, azure_client, user_question, clicked,
                   start_time, reply, response, time_taken, gpt4_result,
                   tinyllama_result, dataframes, col1, col2>>

\* st.columns(2); with col1: st.markdown("### GPT-4 Response")
Col1Header ==
    /\ pc = "col1_header"
    /\ col1' = Append(col1, Gpt4Header)
    /\ pc' = "gpt4_call"
    /\ UNCHANGED <<runs, env_ok, cache, azure_client, user_question, clicked, prompt,
                   start_time, reply, response, time_taken, gpt4_result,
                   tinyllama_result, log, page, dataframes, col2>>

\* get_gpt4_response(azure_client, prompt) is entered: start_time = time.time()
Gpt4Call ==
    /\ pc = "gpt4_call"
    /\ \E now \in ClockReadings : start_time' = now
    /\ log' = Append(log, Event("gpt4_call", prompt))
    /\ pc' = "gpt4_request"
    /\ UNCHANGED <<runs, env_ok, cache, azure_client, user_question, clicked, prompt,
                   reply, response, time_taken, gpt4_result, tinyllama_result, page,
                   dataframes, col1, col2>>

Gpt4Request_NoWait ==
    /\ pc = "gpt4_request"
    /\ log' = Append(log, Event("gpt4_request", prompt))
    /\ pc' = "col2_header"
    /\ UNCHANGED <<runs, env_ok, cache, azure_client, user_question, clicked, prompt,
                   start_time, reply, response, time_taken, gpt4_result,
                   tinyllama_result, page, dataframes, col1, col2>>

\* client.chat.completions.create(...) is called with the prompt as the one message
Gpt4Request ==
    /\ pc = "gpt4_request"
    /\ log' = Append(log, Event("gpt4_request", prompt))
    /\ pc' = "gpt4_wait"
    /\ UNCHANGED <<runs, env_ok, cache, azure_client, user_question, clicked, prompt,
                   start_time, reply, response, time_taken, gpt4_result,
                   tinyllama_result, page, dataframes, col1, col2>>

\* the completion arrives or the call fails; the adapter returns and the handler
\* unpacks response, time_taken
Gpt4Return ==
    /\ pc = "gpt4_wait"
    /\ \E outcome \in CloudOutcomes, now \in ClockReadings :
          LET r == get_gpt4_response(start_time, outcome, now)
          IN  /\ reply' = outcome
              /\ gpt4_result' = r
              /\ IF r.raised
                 THEN pc' = "crashed" /\ UNCHANGED <<response, time_taken>>
                 ELSE pc' = "col1_show" /\ response' = r.text /\ time_taken' = r.time
    /\ log' = Append(log, Event("gpt4_return", <<>>))
    /\ UNCHANGED <<runs, env_ok, cache, azure_client, user_question, clicked, prompt,
                   start_time, tinyllama_result, page, dataframes, col1, col2>>

Col1Show_Deferred ==
    /\ pc = "col1_show"
    /\ pc' = "col2_header"
    /\ UNCHANGED <<runs, env_ok, cache, azure_client, user_question, clicked, prompt,
                   start_time, reply, response, time_taken, gpt4_result,
                   tinyllama_result, log, page, dataframes, col1, col2>>

Col1Show_StopOnError ==
    /\ pc = "col1_show"
    /\ col1' = col1 \o <<response, TimeLine(time_taken)>>
    /\ pc' = IF StartsWith(response, ErrorPrefix) THEN "footer" ELSE "col2_header"
    /\ UNCHANGED <<runs, env_ok, cache, azure_client, user_question, clicked, prompt,
                   start_time, reply, response, time_taken, gpt4_result,
                   tinyllama_result, log, page, dataframes, col2>>

\* st.markdown(response); st.markdown(f"*Response time: {time_taken:.2f} seconds*")
Col1Show ==
    /\ pc = "col1_show"
    /\ col1' = col1 \o <<response, TimeLine(time_taken)>>
    /\ pc' = "col2_header"
    /\ UNCHANGED <<runs, env_ok, cache, azure_client, user_question, clicked, prompt,
                   start_time, reply, response, time_taken, gpt4_result,
                   tinyllama_result, log, page, dataframes, col2>>

\* with col2: st.markdown("### TinyLlama Response")
Col2Header ==
    /\ pc = "col2_header"
    /\ col2' = Append(col2, TinyLlamaHeader)
    /\ pc' = "tinyllama_call"
    /\ UNCHANGED <<runs, env_ok, cache, azure_client, user_question, clicked, prompt,
                   start_time, reply, response, time_taken, gpt4_result,
                   tinyllama_result, log, page, dataframes, col1>>

\* get_tinyllama_response(prompt) is entered: start_time = time.time()
TinyLlamaCall ==
    /\ pc = "tinyllama_call"
    /\ \E now \in ClockReadings : start_time' = now
    /\ log' = Append(log, Event("tinyllama_call", prompt))
    /\ pc' = "tinyllama_request"
    /\ UNCHANGED <<runs, env_ok, cache, azure_client, user_question, clicked, prompt,
                   reply, response, time_taken, gpt4_result, tinyllama_result, page,
                   dataframes, col1, col2>>

\* ollama.generate(model='tinyllama', prompt=prompt, options=...) is called
TinyLlamaRequest ==
    /\ pc = "tinyllama_request"
    /\ log' = Append(log, Event("tinyllama_request", prompt))
    /\ pc' = "tinyllama_wait"
    /\ UNCHANGED <<runs, env_ok, cache, azure_client, user_question, clicked, prompt,
                   start_time, reply, response, time_taken, gpt4_result,
                   tinyllama_result, page, dataframes, col1, col2>>

TinyLlamaReturn_Retry ==
    /\ pc = "tinyllama_wait"
    /\ \E outcome \in LocalOutcomes, now \in ClockReadings :
          LET r == get_tinyllama_response(start_time, outcome, now)
          IN  /\ reply' = outcome
              /\ tinyllama_result' = r
              /\ IF outcome.kind # "ok"
                 THEN pc' = "tinyllama_request" /\ UNCHANGED <<response, time_taken>>
                 ELSE pc' = "col2_show" /\ response' = r.text /\ time_taken' = r.time
    /\ log' = Append(log, Event("tinyllama_return", <<>>))
    /\ UNCHANGED <<runs, env_ok, cache, azure_client, user_question, clicked, prompt,
                   start_time, gpt4_result, page, dataframes, col1, col2>>

\* the response arrives or the call fails; the adapter returns and the handler
\* unpacks response, time_taken
TinyLlamaReturn ==
    /\ pc = "tinyllama_wait"
    /\ \E outcome \in LocalOutcomes, now \in ClockReadings :
          LET r == get_tinyllama_response(start_time, outcome, now)
          IN  /\ reply' = outcome
              /\ tinyllama_result' = r
              /\ IF r.raised
                 THEN pc' = "crashed" /\ UNCHANGED <<response, time_taken>>
                 ELSE pc' = "col2_show" /\ response' = r.text /\ time_taken' = r.time
    /\ log' = Append(log, Event("tinyllama_return", <<>>))
    /\ UNCHANGED <<runs, env_ok, cache, azure_client, user_question, clicked, prompt,
                   start_time, gpt4_result, page, dataframes, col1, col2>>

\* st.markdown(response); st.markdown(f"*Response time: {time_taken:.2f} seconds*")
Col2Show ==
    /\ pc = "col2_show"
    /\ col2' = col2 \o <<response, TimeLine(time_taken)>>
    /\ pc' = "footer"
    /\ UNCHANGED <<runs, env_ok, cache, azure_client, user_question, clicked, prompt,
                   start_time, reply, response, time_taken, gpt4_result,
                   tinyllama_result, log, page, dataframes, col1>>

\* the two st.markdown calls of the footer; the script run ends
Footer ==
    /\ pc = "footer"
    /\ page' = Append(page, "footer")
    /\ pc' = "done"
    /\ UNCHANGED <<runs, env_ok, cache, azure_client, user_question, clicked, prompt,
                   start_time, reply, response, time_taken, gpt4_result,
                   tinyllama_result, log, dataframes, col1, col2>>

\* the user edits the text area or presses the button: Streamlit runs the script
\* again from the top with the widgets' values; the resource cache is kept
Rerun ==
    /\ pc \in {"done", "stopped"}
    /\ runs < MaxRuns
    /\ runs' = runs + 1
    /\ \E q \in Questions, c \in BOOLEAN : user_question' = q /\ clicked' = c
    /\ pc' = "init"
    /\ azure_client' = "unset"
    /\ prompt' = <<>>
    /\ start_time' = 0
    /\ reply' = NoReply
    /\ response' = <<>>
    /\ time_taken' = 0
    /\ gpt4_result' = NoResult
    /\ tinyllama_result' = NoResult
    /\ log' = <<>>
    /\ page' = <<>>
    /\ dataframes' = <<>>
    /\ col1' = <<>>
    /\ col2' = <<>>
    /\ UNCHANGED <<env_ok, cache>>

Next ==
    \/ InitClientsOk
    \/ InitClientsFail
    \/ Title
    \/ SubjectPerformance
    \/ DetailedAnalysis
    \/ TryModels
    \/ NotClicked
    \/ WarnEmpty
    \/ BuildPrompt
    \/ Col1Header
    \/ Gpt4Call
    \/ Gpt4Request
    \/ Gpt4Return
    \/ Col1Show
    \/ Col2Header
    \/ TinyLlamaCall
    \/ TinyLlamaRequest
    \/ TinyLlamaReturn
    \/ Col2Show
    \/ Footer
    \/ Rerun

Spec == Init /\ [][Next]_vars

(***************************************************************************)
(* create_prompt on its own: every question of at most MaxLen characters,  *)
(* the empty one included, built twice.                                    *)
(***************************************************************************)
PromptInit ==
    /\ pc = "create_prompt"
    /\ runs = 1
    /\ env_ok = TRUE
    /\ cache = FALSE
    /\ azure_client = "unset"
    /\ user_question \in Strs(MaxLen)
    /\ clicked = FALSE
    /\ prompt = <<>>
    /\ start_time = 0
    /\ reply = NoReply
    /\ response = <<>>
    /\ time_taken = 0
    /\ gpt4_result = NoResult
    /\ tinyllama_result = NoResult
    /\ log = <<>>
    /\ page = <<>>
    /\ dataframes = <<>>
    /\ col1 = <<>>
    /\ col2 = <<>>

PromptCall ==
    /\ pc = "create_prompt"
    /\ prompt' = create_prompt(user_question)
    /\ pc' = "prompt_built"
    /\ UNCHANGED <<runs, env_ok, cache, azure_client, user_question, clicked,
                   start_time, reply, response, time_taken, gpt4_result,
                   tinyllama_result, log, page, dataframes, col1, col2>>

PromptCallAgain ==
    /\ pc = "prompt_built"
    /\ prompt' = create_prompt(user_question)
    /\ pc' = "prompt_rebuilt"
    /\ UNCHANGED <<runs, env_ok, cache, azure_client, user_question, clicked,
                   start_time, reply, response, time_taken, gpt4_result,
                   tinyllama_result, log, page, dataframes, col1, col2>>

PromptNext == PromptCall \/ PromptCallAgain

PromptSpec == PromptInit /\ [][PromptNext]_vars

(***************************************************************************)
(* Properties.                                                             *)
(***************************************************************************)
CloudEvents == {"gpt4_call", "gpt4_request", "gpt4_return"}

LocalEvents == {"tinyllama_call", "tinyllama_request", "tinyllama_return"}

Logged(e) == \E i \in 1..Len(log) : log[i].ev = e

\* a non-empty question was submitted and both columns of the handler are through
FlowComplete ==
    pc \in {"footer", "done"} /\ clicked /\ user_question # <<>>

\* the number of milliseconds a rendered "*Response time: ... seconds*" line shows
ShownMs(line) ==
    10 * ParseFixed(SubSeq(line, Len(TimeHead) + 1, Len(line) - Len(TimeTail)))

\* C1: within a run every call, request and return of get_tinyllama_response
\* comes after the return of get_gpt4_response, and no event of the cloud
\* adapter comes after an event of the local adapter: the two calls never overlap
\* and the cloud call completes before the local call starts.
C1_CloudCompletesBeforeLocalStarts ==
    \A j \in 1..Len(log) :
        /\ log[j].ev \in LocalEvents =>
              \E i \in 1..(j - 1) : log[i].ev = "gpt4_return"
        /\ log[j].ev \in CloudEvents =>
              \A i \in 1..(j - 1) : log[i].ev \notin LocalEvents

C1_Witness_LocalStartedAfterCloudFailed ==
    /\ pc = "tinyllama_request"
    /\ Logged("tinyllama_call")
    /\ gpt4_result.time = 0
    /\ StartsWith(gpt4_result.text, ErrorPrefix)

\* C2: when the transport call raised or gave a malformed response (no choices,
\* no 'response' field), the adapter returns instead of raising, and returns a
\* text that starts with "Error: " and an elapsed time of exactly 0; for both
\* adapters.
C2_FailureContained ==
    /\ pc # "crashed"
    /\ (pc = "col1_show" /\ reply.kind # "ok") =>
          /\ ~gpt4_result.raised
          /\ StartsWith(gpt4_result.text, ErrorPrefix)
          /\ gpt4_result.time = 0
          /\ response = gpt4_result.text /\ time_taken = 0
    /\ (pc = "col2_show" /\ reply.kind # "ok") =>
          /\ ~tinyllama_result.raised
          /\ StartsWith(tinyllama_result.text, ErrorPrefix)
          /\ tinyllama_result.time = 0
          /\ response = tinyllama_result.text /\ time_taken = 0

C2_Witness_MalformedLocalReply ==
    /\ pc = "col2_show"
    /\ reply.kind = "no_response_field"
    /\ tinyllama_result.text = ErrorPrefix \o KeyErrorText
    /\ start_time > 0

\* C3: in every table rendered so far, each row's Difference is GPT4 minus
\* TinyLlama (scores in thousandths, so the comparison is exact).
C3_DifferenceIsGpt4MinusTinyLlama ==
    \A t \in 1..Len(dataframes) :
        \A i \in 1..Len(dataframes[t].data) :
            LET row == dataframes[t].data[i]
            IN  row.Difference = row.GPT4 - row.TinyLlama

\* C4: the prompt builder or an adapter has been invoked only if the button was
\* pressed with a non-empty question; a submission of the empty question ends
\* with the warning shown and nothing invoked.
C4_EmptyQuestionGuard ==
    /\ (log # <<>> \/ prompt # <<>> \/ col1 # <<>> \/ col2 # <<>>) =>
          clicked /\ user_question # <<>>
    /\ (clicked /\ user_question = <<>> /\ pc \in {"footer", "done"}) =>
          /\ \E i \in 1..Len(page) : page[i] = "warning"
          /\ log = <<>>

C4_Witness_EmptySubmitWarned ==
    /\ clicked
    /\ user_question = <<>>
    /\ pc = "footer"
    /\ page[Len(page)] = "warning"

\* C5 as stated: when the flow completes, column 1 shows exactly the text and
\* the elapsed time get_gpt4_response returned, and column 2 exactly those
\* get_tinyllama_response returned (looked at where neither elapsed time is
\* negative, so that what the clock read is not what decides it).
C5_ExactPairsShown ==
    (FlowComplete /\ gpt4_result.time >= 0 /\ tinyllama_result.time >= 0) =>
        /\ Len(col1) = 3 /\ Len(col2) = 3
        /\ col1[2] = gpt4_result.text
        /\ ShownMs(col1[3]) = gpt4_result.time
        /\ col2[2] = tinyllama_result.text
        /\ ShownMs(col2[3]) = tinyllama_result.time

\* C5 amended: the script never dies in the flow, and when the flow completes,
\* whatever the two outcomes, column 1 shows the text get_gpt4_response returned,
\* unmodified, and its elapsed time rounded to hundredths of a second (at most
\* 5 ms off), and column 2 shows the same of get_tinyllama_response.
C5_BothResultsShownTimeRounded ==
    /\ pc # "crashed"
    /\ FlowComplete =>
          /\ Len(col1) = 3 /\ Len(col2) = 3
          /\ Logged("gpt4_return") /\ Logged("tinyllama_return")
          /\ col1[1] = Gpt4Header /\ col2[1] = TinyLlamaHeader
          /\ col1[2] = gpt4_result.text
          /\ col2[2] = tinyllama_result.text
          /\ StartsWith(col1[3], TimeHead) /\ StartsWith(col2[3], TimeHead)
          /\ ShownMs(col1[3]) % 10 = 0 /\ ShownMs(col2[3]) % 10 = 0
          /\ Abs(ShownMs(col1[3]) - gpt4_result.time) <= 5
          /\ Abs(ShownMs(col2[3]) - tinyllama_result.time) <= 5

C5_Witness_CloudFailedLocalShown ==
    /\ FlowComplete
    /\ StartsWith(gpt4_result.text, ErrorPrefix)
    /\ tinyllama_result.time = MaxClock
    /\ col2[2] = <<"4">>
    /\ ShownMs(col2[3]) = 10

\* C6: in a run no call is made twice, and when the flow completes exactly one
\* prompt has been built from the question, each adapter has been called once
\* with that prompt and has issued one request carrying it.
C6_ExactlyOnce ==
    /\ \A e \in CloudEvents \cup LocalEvents \cup {"create_prompt"} : Count(e) <= 1
    /\ FlowComplete =>
          /\ Len(log) = 7
          /\ \A e \in CloudEvents \cup LocalEvents \cup {"create_prompt"} : Count(e) = 1
          /\ \A i \in 1..Len(log) :
                /\ log[i].ev = "create_prompt" => log[i].arg = user_question
                /\ log[i].ev \in {"gpt4_call", "gpt4_request", "tinyllama_call",
                                  "tinyllama_request"} => log[i].arg = prompt

C6_Witness_BothFailedOnce ==
    /\ FlowComplete
    /\ gpt4_result.text = ErrorPrefix \o IndexErrorText
    /\ tinyllama_result.text = ErrorPrefix \o ConnectionErrorText
    /\ Count("gpt4_request") = 1
    /\ Count("tinyllama_request") = 1

\* C7: an adapter call that raised nothing returns an elapsed time greater
\* than 0.
C7_SuccessElapsedPositive ==
    /\ (pc = "col1_show" /\ reply.kind = "ok") => gpt4_result.time > 0
    /\ (pc = "col2_show" /\ reply.kind = "ok") => tinyllama_result.time > 0

\* C8: for every question, the empty one included, create_prompt returns the
\* fixed head of the template, then the question verbatim, then the fixed tail,
\* and a second call with the same question returns what the first returned.
C8_PromptEmbedsQuestion ==
    /\ [](pc \in {"prompt_built", "prompt_rebuilt"} =>
            /\ Len(prompt) = Len(TemplateHead) + Len(user_question) + Len(TemplateTail)
            /\ SubSeq(prompt, 1, Len(TemplateHead)) = TemplateHead
            /\ SubSeq(prompt, Len(TemplateHead) + 1,
                      Len(TemplateHead) + Len(user_question)) = user_question
            /\ SubSeq(prompt, Len(TemplateHead) + Len(user_question) + 1,
                      Len(prompt)) = TemplateTail)
    /\ [][pc = "prompt_built" /\ pc' = "prompt_rebuilt" => prompt' = prompt]_vars

C8_Witness_EmptyQuestionBuiltTwice ==
    /\ pc = "prompt_rebuilt"
    /\ user_question = <<>>
    /\ prompt = TemplateHead \o TemplateTail

\* C9: a run in which init_clients raised shows the error and nothing else,
\* invokes nothing and stops; a run stops only there, never dies, and a run
\* that ended otherwise has rendered the footer.
C9_OnlyInitIsFatal ==
    /\ []((\E i \in 1..Len(page) : page[i] = "error") =>
            /\ ~env_ok
            /\ pc = "stopped"
            /\ page = <<"error">>
            /\ log = <<>> /\ dataframes = <<>> /\ col1 = <<>> /\ col2 = <<>>)
    /\ [](pc = "stopped" => page = <<"error">>)
    /\ [](pc # "crashed")
    /\ [](pc = "done" => azure_client = "AzureOpenAI" /\ page[Len(page)] = "footer")
    /\ [][pc' = "stopped" => pc = "init"]_vars
    /\ [][pc' = "init" => pc \in {"done", "stopped"}]_vars

C9_Witness_StoppedAtInit ==
    /\ pc = "stopped"
    /\ runs = MaxRuns
    /\ page = <<"error">>
    /\ clicked /\ user_question # <<>>

\* C10: once get_tinyllama_response has been called, column 1 already shows the
\* text and the response time of get_gpt4_response.
C10_CloudShownBeforeLocalCalled ==
    Logged("tinyllama_call") =>
        /\ Len(col1) = 3
        /\ col1[2] = gpt4_result.text
        /\ col1[3] = TimeLine(gpt4_result.time)

C10_Witness_CloudShownLocalPending ==
    /\ pc = "col2_header"
    /\ Len(col1) = 3
    /\ col1[2] = <<"4">>
    /\ ~Logged("tinyllama_call")
    /\ col2 = <<>>

====
